---- MODULE Spec2Model ----
(***************************************************************************)
(* Amazfit / Huami telemetry sync of healthup: the single-day endpoint     *)
(* (GET /amazfit/day), the range sync (POST /amazfit/sync) and the tables  *)
(* they keep (activity_data, hr_sessions, steps_data,                      *)
(* amazfit_credentials).                                                   *)
(*                                                                         *)
(* Python dicts are functions whose DOMAIN is the set of keys present;     *)
(* the empty dict and the empty list are both <<>>.  Hour and kilometre    *)
(* columns are Numeric(_,2): they are kept in hundredths.                  *)
(***************************************************************************)
EXTENDS Integers, Sequences, FiniteSets, TLC

\* ------------------------------------------------------------------------
\* Bounds of the model
\* ------------------------------------------------------------------------
MaxDaysBack == 3     \* the largest days_back of a sync request
MaxOps == 2          \* day, sync, refresh and heart-rate log requests in one behaviour
MaxDeviations == 1   \* days or commits whose answers depart from the usual ones
MaxRequests == 2     \* requests that run concurrently
MaxBlobLen == 3      \* bytes of a heart-rate blob handed to a decoder
MaxSleepFields == 2  \* fields of the slp group of a summary
MaxCalls == 2        \* get_amazfit_token calls in one behaviour
MaxLimit == 3        \* the largest limit asked of get_workout_history
MaxPage == 2         \* workouts on one page of the workout history

Users == {"u1"}
\* date.today(): the clock stands still, and dates are counted from today
Today == 0

\* the dates asked of /amazfit/day, and the days_back asked of /amazfit/sync
QueryDates == {Today - 1, Today}
DaysBackChoices == {0, MaxDaysBack}

\* ------------------------------------------------------------------------
\* Dict helpers
\* ------------------------------------------------------------------------
EmptyDict == <<>>

Has(d, k) == k \in DOMAIN d

Get(d, k, dflt) == IF k \in DOMAIN d THEN d[k] ELSE dflt

Truthy(d) == d # <<>>

TruthyStr(str) == str # ""

\* a quotient num/den is the pair <<num, den>>; Zero is the number 0
Zero == <<0, 1>>

\* Numeric(_,2) column: num/den rounded half away from zero, in hundredths
Numeric2(q) ==
    LET num == q[1]
        den == q[2]
    IN
    IF num >= 0 THEN (200 * num + den) \div (2 * den)
        ELSE 0 - ((200 * (0 - num) + den) \div (2 * den))

RECURSIVE SumSeq(_)
SumSeq(s) == IF s = <<>> THEN 0 ELSE Head(s) + SumSeq(Tail(s))

MaxOf(S) == CHOOSE x \in S : \A y \in S : y <= x
MinOf(S) == CHOOSE x \in S : \A y \in S : x <= y

SelectEvery(s) == s

SelectPos(s) == SelectSeq(s, LAMBDA v : v > 0)

\* ------------------------------------------------------------------------
\* Decoders (AmazfitService)
\* ------------------------------------------------------------------------
DecodeHrBlobUpTo240(raw) ==
    [i \in 1..Len(raw) |-> IF 30 <= raw[i] /\ raw[i] <= 240 THEN raw[i] ELSE 0]

\* decode_hr_blob: one byte per minute, 30 <= value < 240 kept, else 0
DecodeHrBlob(raw) ==
    [i \in 1..Len(raw) |-> IF 30 <= raw[i] /\ raw[i] < 240 THEN raw[i] ELSE 0]

DecodeHr16From300(blob) ==
    [k \in 1..((Len(blob) + 1) \div 2) |->
        IF 2 * k <= Len(blob)
        THEN LET value == blob[2 * k - 1] + 256 * blob[2 * k]
             IN  IF value < 65535
                 THEN (IF value >= 300 THEN value \div 10 ELSE value)
                 ELSE 0
        ELSE 0]

\* get_heart_rate_data: pairs of bytes, little endian
DecodeHr16(blob) ==
    [k \in 1..((Len(blob) + 1) \div 2) |->
        IF 2 * k <= Len(blob)
        THEN LET value == blob[2 * k - 1] + 256 * blob[2 * k]
             IN  IF value < 65535
                 THEN (IF value > 300 THEN value \div 10 ELSE value)
                 ELSE 0
        ELSE 0]

\* hr_stats of get_daily_summary / _process_heart_rate_data / get_amazfit_day_data
HrStats(hr_values) ==
    LET valid_hr == SelectPos(hr_values)
    IN  IF valid_hr = <<>> THEN EmptyDict
        ELSE [avg_hr |-> SumSeq(valid_hr) \div Len(valid_hr),
              max_hr |-> MaxOf({valid_hr[i] : i \in 1..Len(valid_hr)}),
              min_hr |-> MinOf({valid_hr[i] : i \in 1..Len(valid_hr)}),
              duration_minutes |-> Len(valid_hr),
              total_readings |-> Len(hr_values),
              valid_readings |-> Len(valid_hr)]

\* decode_band_summary: {} unless data[0].summary is base64 of a JSON object
DecodeBandSummary(band_data) ==
    IF ~Truthy(band_data) \/ ~Has(band_data, "data") \/ ~Truthy(band_data.data)
    THEN EmptyDict
    ELSE LET summary_b64 == Get(band_data.data[1], "summary", [b64ok |-> TRUE, json |-> EmptyDict, empty |-> TRUE])
         IN  IF summary_b64.empty THEN EmptyDict
             ELSE IF summary_b64.b64ok THEN summary_b64.json
             ELSE EmptyDict

\* ------------------------------------------------------------------------
\* Answers of the remote service
\* ------------------------------------------------------------------------
\* the slp group keeps the order of its keys (slp.items() is walked in order)
PHas(pairs, k) == \E i \in 1..Len(pairs) : pairs[i][1] = k

PGet(pairs, k, dflt) ==
    IF PHas(pairs, k)
    THEN pairs[CHOOSE i \in 1..Len(pairs) : pairs[i][1] = k][2]
    ELSE dflt

Blob(j) == [b64ok |-> TRUE, empty |-> FALSE, json |-> j]
BadBlob == [b64ok |-> FALSE, empty |-> FALSE, json |-> EmptyDict]

SummaryJson ==
    [stp |-> [ttl |-> 8342, cal |-> 210, dis |-> 6000, act |-> 45],
     slp |-> << <<"st", 1000>>, <<"ed", 6400>>, <<"dp", 30>> >>]

Ok(body) == [status |-> "ok", body |-> body]
Fail(code) == [status |-> code, body |-> EmptyDict]
HttpErrors == {Fail("h404"), Fail("h401"), Fail("h500")}

\* a JSON value that is an object, and one that is not
JObj(d) == [json_type |-> "object", fields |-> d]
JStr == [json_type |-> "string", fields |-> EmptyDict]

\* band_data.json: the usual answer, and the answers that depart from it
\* a summary whose sleep window ends before it starts
ReversedSleepJson ==
    [stp |-> [ttl |-> 8342, cal |-> 210, dis |-> 6000, act |-> 45],
     slp |-> << <<"st", 6400>>, <<"ed", 1000>>, <<"dp", 30>> >>]

BandUsual == Ok([data |-> << [summary |-> Blob(SummaryJson), data_hr |-> <<72, 0, 80>>] >>])
BandOther ==
    HttpErrors \cup
    { Ok([data |-> <<>>]),                                                   \* no data for the day
      Ok([data |-> << [summary |-> Blob(SummaryJson)] >>]),                  \* no heart-rate blob
      Ok([data |-> << [summary |-> Blob(SummaryJson), data_hr |-> <<0, 0>>] >>]),
      Ok([data |-> << [summary |-> Blob(ReversedSleepJson), data_hr |-> <<72, 0, 80>>] >>]),
      Ok([data |-> << [summary |-> BadBlob, data_hr |-> <<250, 61>>] >>]) }  \* summary not parsable

\* /v1/user/fitness/heart_rate, /activity, /sleep
LegacyUsual == Fail("h404")
HrOther == { Ok(EmptyDict), Ok([heartRate |-> <<66, 0, 255, 255, 1>>]) }
ActOther == { Ok(EmptyDict), Ok([steps |-> 500, calories |-> 20]), Ok([summary |-> JStr]) }

\* the answers a request may get when `left` departures from the usual are still allowed
Pick(usual, others, left) == IF left > 0 THEN {usual} \cup others ELSE {usual}

Cost(ans, usual) == IF ans = usual THEN 0 ELSE 1

\* ------------------------------------------------------------------------
\* AmazfitService.get_daily_summary
\* ------------------------------------------------------------------------
IstOffset == 19800   \* timedelta(hours=5, minutes=30), in seconds

SleepCandidatesAnyKey(slp) == {i \in 1..Len(slp) : slp[i][2] > 0}

\* the fields the fallback of the slp group may take: positive numbers, not st nor ed
SleepCandidates(slp) == {i \in 1..Len(slp) : slp[i][2] > 0 /\ slp[i][1] \notin {"st", "ed"}}

SleepOfSummary(slp) ==
    LET window ==
            IF PHas(slp, "st") /\ PHas(slp, "ed")
            THEN LET st == PGet(slp, "st", 0)
                     ed == PGet(slp, "ed", 0)
                 IN  [sleep_time_seconds |-> ed - st,
                      sleep_time_hours |-> <<ed - st, 3600>>,
                      sleep_start |-> st + IstOffset,
                      sleep_end |-> ed + IstOffset,
                      sleep_start_utc |-> st,
                      sleep_end_utc |-> ed]
            ELSE LET cand == SleepCandidates(slp)
                 IN  IF cand = {} THEN EmptyDict
                     ELSE LET value == slp[MinOf(cand)][2]
                          IN  [sleep_time_seconds |-> value,
                               sleep_time_hours |-> <<value, 3600>>]
        Stage(k, minutes, hours) ==
            IF PHas(slp, k)
            THEN (minutes :> PGet(slp, k, 0)) @@ (hours :> <<PGet(slp, k, 0), 60>>)
            ELSE EmptyDict
    IN  window @@ Stage("dp", "deep_sleep_minutes", "deep_sleep_hours")
               @@ Stage("lt", "light_sleep_minutes", "light_sleep_hours")
               @@ Stage("rm", "rem_sleep_minutes", "rem_sleep_hours")
               @@ Stage("wk", "awake_minutes", "awake_hours")

ActivityOfStepsSwapped(stp) ==
    [steps |-> Get(stp, "cal", 0),
     calories |-> Get(stp, "ttl", 0),
     distance |-> Get(stp, "dis", 0),
     active_minutes |-> Get(stp, "act", 0)]

\* summary['activity'] of get_daily_summary, from the stp group
ActivityOfSteps(stp) ==
    [steps |-> Get(stp, "ttl", 0),
     calories |-> Get(stp, "cal", 0),
     distance |-> Get(stp, "dis", 0),
     active_minutes |-> Get(stp, "act", 0)]

\* the part of get_daily_summary inside its try block, once band_data arrived
SummaryOfBand(target_date, band_data) ==
    LET decoded_summary == DecodeBandSummary(band_data)
        activity ==
            IF Has(decoded_summary, "stp") THEN ActivityOfSteps(decoded_summary.stp) ELSE EmptyDict
        hr_blob ==
            IF Truthy(band_data) /\ Has(band_data, "data") /\ Truthy(band_data.data)
            THEN Get(band_data.data[1], "data_hr", <<>>)
            ELSE <<>>
        decoded_hr == IF Truthy(hr_blob) THEN DecodeHrBlob(hr_blob) ELSE <<>>
    IN  [date |-> target_date,
         heart_rate |-> decoded_hr,
         activity |-> activity,
         sleep |-> IF Has(decoded_summary, "slp") THEN SleepOfSummary(decoded_summary.slp) ELSE EmptyDict,
         workouts |-> Get(decoded_summary, "wkt", <<>>),
         events |-> Get(decoded_summary, "evt", <<>>),
         hrv |-> IF Has(decoded_summary, "hrv") THEN Get(decoded_summary.hrv, "avg", 0) ELSE 0,
         hr_stats |-> HrStats(decoded_hr),
         band_data |-> band_data]

EmptySummary(target_date) ==
    [date |-> target_date, heart_rate |-> <<>>, activity |-> EmptyDict, sleep |-> EmptyDict,
     workouts |-> <<>>, events |-> <<>>, hrv |-> 0, hr_stats |-> EmptyDict, band_data |-> EmptyDict]

\* how a request was answered: an HTTP error, a body without data, or data
AnswerKind(ans) ==
    IF ans.status # "ok" THEN ans.status
    ELSE IF ~Truthy(ans.body) \/ (Has(ans.body, "data") /\ ~Truthy(ans.body.data)) THEN "nodata"
    ELSE "ok"

Req(ep, d, ans) == <<"req", ep, d, AnswerKind(ans)>>

\* the try block of get_daily_summary: the band_data request and what is decoded from it
AfterBand(target_date, band) ==
    IF band.status = "ok" THEN SummaryOfBand(target_date, band.body) ELSE EmptySummary(target_date)

\* the fallback requests get_daily_summary goes on to issue
Needs(s0) ==
    [hr |-> ~Truthy(s0.heart_rate), act |-> ~Truthy(s0.activity), slp |-> ~Truthy(s0.sleep)]

UsualDay == [band |-> BandUsual, hr |-> LegacyUsual, act |-> LegacyUsual, slp |-> LegacyUsual]

\* days on which the fallback endpoints answer with something too; on each of them
\* band_data fails or is empty, so all three fallback requests are issued
FallbackDays ==
    { [UsualDay EXCEPT !.band = Fail("h500"), !.act = Ok([summary |-> JStr])],
      [UsualDay EXCEPT !.band = Fail("h500"), !.act = Ok([steps |-> 500, calories |-> 20])],
      [UsualDay EXCEPT !.band = Fail("h404"), !.hr = Ok([heartRate |-> <<66, 0, 255, 255, 1>>])],
      [UsualDay EXCEPT !.band = Fail("h404"), !.slp = Ok([summary |-> JObj([sleepTime |-> 7200])])],
      [band |-> Ok([data |-> <<>>]), hr |-> Ok(EmptyDict), act |-> Ok(EmptyDict), slp |-> Ok(EmptyDict)] }

\* the answers of the remote to the requests of one day: the usual ones, or, when a
\* departure is still allowed, another answer of band_data or one of FallbackDays
DayAnswers(left) ==
    IF left <= 0 THEN {UsualDay}
    ELSE {UsualDay} \cup {[UsualDay EXCEPT !.band = band] : band \in BandOther} \cup FallbackDays

Departures(ans) == IF ans = UsualDay THEN 0 ELSE 1

\* get_daily_summary: the summary and the requests issued, given the remote's answers
GetDailySummary(target_date, ans) ==
    LET s0 == AfterBand(target_date, ans.band)
        need == Needs(s0)
        hr == IF need.hr /\ ans.hr.status = "ok"
              THEN (IF Has(ans.hr.body, "heartRate") THEN DecodeHr16(ans.hr.body.heartRate) ELSE <<>>)
              ELSE s0.heart_rate
        act == IF need.act /\ ans.act.status = "ok" THEN ans.act.body ELSE s0.activity
        slp == IF need.slp /\ ans.slp.status = "ok" THEN ans.slp.body ELSE s0.sleep
    IN  [summary |-> [s0 EXCEPT !.heart_rate = hr, !.activity = act, !.sleep = slp],
         fetched |-> ans.band.status = "ok",
         reqs |-> <<Req("band", target_date, ans.band)>>
                  \o (IF need.hr THEN <<Req("heart_rate", target_date, ans.hr)>> ELSE <<>>)
                  \o (IF need.act THEN <<Req("activity", target_date, ans.act)>> ELSE <<>>)
                  \o (IF need.slp THEN <<Req("sleep", target_date, ans.slp)>> ELSE <<>>)]

\* ------------------------------------------------------------------------
\* State
\* ------------------------------------------------------------------------
VARIABLES
    creds,      \* amazfit_credentials rows
    activity,   \* activity_data rows
    hrs,        \* hr_sessions rows
    stepsTab,   \* steps_data rows
    pc,         \* where the running /amazfit/sync request is ("idle": none is running)
    sy,         \* locals of the running sync request
    sess,       \* its SQLAlchemy session: rows as it sees them, and rows added but not committed
    log,        \* what the current (or the last) request did, in order
    result,     \* what the last finished request returned
    dev,        \* answers so far that departed from the usual one
    ops,        \* day, sync, refresh and heart-rate log requests so far
    inflight,   \* the requests that run concurrently: each slot's request and its locals
    issued,     \* app tokens the remote service has issued to refresh requests
    dec,        \* a blob handed to a decoder, and what the decoder made of it
    calc,       \* a value handed to a function of the service, and what the function returned
    wk,         \* locals of a running get_workout_history call
    login       \* the get_amazfit_token calls so far: the answers each got, the requests it sent

vars == <<creds, activity, hrs, stepsTab, pc, sy, sess, log, result, dev, ops, inflight, issued, dec,
          calc, wk, login>>

\* the tables, and the state of the request that runs on its own
tables == <<creds, activity, hrs, stepsTab>>
request == <<pc, sy, sess, log, result, dev, ops>>

\* the state of the calls that are followed on their own
local == <<calc, wk, login>>

\* the state of the concurrent requests
conc == <<inflight, issued>>

\* the worker threads that serve concurrent requests, and a thread that serves none
Slots == 1..MaxRequests
NoRequest == [kind |-> "none"]

\* no blob is being decoded
NoBlob == [blob |-> <<>>, encoding |-> "idle", hr_values |-> <<>>]

\* no function has been applied
NoCalc == [fn |-> "none"]

\* no get_workout_history call is running
NoWorkouts == [pc |-> "idle"]

\* get_amazfit_token has not been called
NoLogin == <<>>

NoSession == [act |-> <<>>, hr |-> <<>>, steps |-> <<>>, newAct |-> <<>>, newHr |-> <<>>, newSteps |-> <<>>]
NoSync == [user |-> "", days_back |-> 0]
NoResult == [op |-> "none"]

\* ------------------------------------------------------------------------
\* Queries (.filter(...).first())
\* ------------------------------------------------------------------------
Matching(tab, u, d) == {i \in 1..Len(tab) : tab[i].user = u /\ tab[i].date = d}

\* index of the first row of (u, d), 0 when there is none
FirstRow(tab, u, d) == IF Matching(tab, u, d) = {} THEN 0 ELSE MinOf(Matching(tab, u, d))

\* hr_sessions: logged_at >= d and logged_at < d + 1 day
HrMatching(tab, u, d) == {i \in 1..Len(tab) : tab[i].user = u /\ tab[i].logged_at.day = d}

FirstHrNone(tab, u, d) == 0

FirstHr(tab, u, d) == IF HrMatching(tab, u, d) = {} THEN 0 ELSE MinOf(HrMatching(tab, u, d))

CredOf(tab, u) ==
    LET m == {i \in 1..Len(tab) : tab[i].user = u}
    IN  IF m = {} THEN 0 ELSE MinOf(m)

UniqueOkAlways(tab) == TRUE

\* uq_user_activity_date, uq_user_steps_date: the commit is refused on a duplicate key
UniqueOk(tab) == \A i, j \in 1..Len(tab) : (tab[i].user = tab[j].user /\ tab[i].date = tab[j].date) => i = j

\* a table has no order of its own: the model keeps its rows by date, and rows of
\* one date in the order they were inserted
DayOf(row) == IF Has(row, "date") THEN row.date ELSE row.logged_at.day

InsertRow(tab, row) ==
    LET before == Cardinality({i \in 1..Len(tab) : DayOf(tab[i]) <= DayOf(row)})
    IN  SubSeq(tab, 1, before) \o <<row>> \o SubSeq(tab, before + 1, Len(tab))

RECURSIVE InsertAll(_, _)
InsertAll(tab, rows) ==
    IF rows = <<>> THEN tab ELSE InsertAll(InsertRow(tab, Head(rows)), Tail(rows))

RemoveAt(tab, i) == SubSeq(tab, 1, i - 1) \o SubSeq(tab, i + 1, Len(tab))

\* ------------------------------------------------------------------------
\* Rows
\* ------------------------------------------------------------------------
HrRow(u, d, hr_stats, hr_values) ==
    [user |-> u,
     avg_hr |-> hr_stats.avg_hr, max_hr |-> hr_stats.max_hr, min_hr |-> hr_stats.min_hr,
     duration_minutes |-> hr_stats.duration_minutes,
     session_data |-> [hr_values |-> hr_values, stats |-> hr_stats],
     logged_at |-> [day |-> d, minute |-> 0]]

\* the update branch keeps id, user and logged_at of the existing session
HrUpdated(row, hr_stats, hr_values) ==
    [row EXCEPT !.avg_hr = hr_stats.avg_hr, !.max_hr = hr_stats.max_hr, !.min_hr = hr_stats.min_hr,
                !.duration_minutes = hr_stats.duration_minutes,
                !.session_data = [hr_values |-> hr_values, stats |-> hr_stats]]

\* get_amazfit_day_data: the activity_data columns written from the summary
DayActivityRow(u, d, daily_summary) ==
    LET act == daily_summary.activity
        slp == daily_summary.sleep
    IN  [user |-> u, date |-> d,
         steps |-> Get(act, "steps", 0),
         calories_burned |-> Get(act, "calories", 0),
         distance_km |-> Numeric2(<<Get(act, "distance", 0), 1000>>),
         active_minutes |-> Get(act, "active_minutes", 0),
         sleep_hours |-> Numeric2(Get(slp, "sleep_time_hours", Zero)),
         deep_sleep_hours |-> Numeric2(Get(slp, "deep_sleep_hours", Zero)),
         light_sleep_hours |-> Numeric2(Get(slp, "light_sleep_hours", Zero)),
         rem_sleep_hours |-> Numeric2(Get(slp, "rem_sleep_hours", Zero)),
         awake_hours |-> Numeric2(Get(slp, "awake_hours", Zero)),
         raw_data |-> daily_summary]

\* _process_activity_data; raised: the call ends in an exception
ProcessActivityData(activity_data) ==
    IF ~Truthy(activity_data) THEN [raised |-> FALSE, val |-> EmptyDict]
    ELSE IF Has(activity_data, "steps")
    THEN [raised |-> FALSE,
          val |-> [steps |-> Get(activity_data, "steps", 0),
                   calories_burned |-> Get(activity_data, "calories", 0)]]
    ELSE IF Has(activity_data, "summary")
    THEN IF activity_data.summary.json_type # "object"
         THEN [raised |-> TRUE, val |-> EmptyDict]
         ELSE LET summary == activity_data.summary.fields
              IN  [raised |-> FALSE,
                   val |-> [steps |-> Get(summary, "steps", 0),
                            calories_burned |-> Get(summary, "calories", 0),
                            distance_km |-> <<Get(summary, "distance", 0), 1000>>,
                            active_minutes |-> Get(summary, "activeMinutes", 0)]]
    ELSE [raised |-> FALSE, val |-> EmptyDict]

\* _process_sleep_data
ProcessSleepData(sleep_data) ==
    IF ~Truthy(sleep_data) THEN [raised |-> FALSE, val |-> EmptyDict]
    ELSE IF Has(sleep_data, "sleep_time_hours")
    THEN [raised |-> FALSE,
          val |-> [sleep_hours |-> Get(sleep_data, "sleep_time_hours", Zero),
                   sleep_time_seconds |-> Get(sleep_data, "sleep_time_seconds", 0),
                   sleep_start |-> Get(sleep_data, "sleep_start", 0),
                   sleep_end |-> Get(sleep_data, "sleep_end", 0)]]
    ELSE IF Has(sleep_data, "summary")
    THEN IF sleep_data.summary.json_type # "object"
         THEN [raised |-> TRUE, val |-> EmptyDict]
         ELSE LET summary == sleep_data.summary.fields
              IN  [raised |-> FALSE,
                   val |-> [sleep_hours |-> <<Get(summary, "sleepTime", 0), 3600>>,
                            deep_sleep_hours |-> <<Get(summary, "deepSleepTime", 0), 3600>>,
                            light_sleep_hours |-> <<Get(summary, "lightSleepTime", 0), 3600>>,
                            rem_sleep_hours |-> <<Get(summary, "remSleepTime", 0), 3600>>,
                            awake_hours |-> <<Get(summary, "awakeTime", 0), 3600>>]]
    ELSE [raised |-> FALSE, val |-> EmptyDict]

\* _process_heart_rate_data
ProcessHeartRateData(hr_values) == IF ~Truthy(hr_values) THEN EmptyDict ELSE HrStats(hr_values)

\* sync_activity_data: the activity_data columns written from the processed dicts
SyncActivityRow(u, d, activity_data, sleep_data, daily_summary) ==
    [user |-> u, date |-> d,
     steps |-> Get(activity_data, "steps", 0),
     calories_burned |-> Get(activity_data, "calories_burned", 0),
     distance_km |-> Numeric2(Get(activity_data, "distance_km", Zero)),
     active_minutes |-> Get(activity_data, "active_minutes", 0),
     sleep_hours |-> Numeric2(Get(sleep_data, "sleep_hours", Zero)),
     deep_sleep_hours |-> Numeric2(Get(sleep_data, "deep_sleep_hours", Zero)),
     light_sleep_hours |-> Numeric2(Get(sleep_data, "light_sleep_hours", Zero)),
     rem_sleep_hours |-> Numeric2(Get(sleep_data, "rem_sleep_hours", Zero)),
     awake_hours |-> Numeric2(Get(sleep_data, "awake_hours", Zero)),
     raw_data |-> daily_summary]

\* update if exists else insert, on the rows the session sees
Upsert(seen, added, idx, row) ==
    IF idx # 0
    THEN [seen |-> [seen EXCEPT ![idx] = row], added |-> added]
    ELSE [seen |-> seen, added |-> Append(added, row)]

\* _sync_hr_session, and the heart-rate part of get_amazfit_day_data
UpsertHr(seen, added, idx, u, d, hr_stats, hr_values) ==
    IF idx # 0
    THEN [seen |-> [seen EXCEPT ![idx] = HrUpdated(seen[idx], hr_stats, hr_values)], added |-> added]
    ELSE [seen |-> seen, added |-> Append(added, HrRow(u, d, hr_stats, hr_values))]

\* ------------------------------------------------------------------------
\* Init
\* ------------------------------------------------------------------------
Init ==
    /\ creds = <<>>
    /\ activity = <<>>
    /\ hrs = <<>>
    /\ stepsTab = <<>>
    /\ pc = "idle"
    /\ sy = NoSync
    /\ sess = NoSession
    /\ log = <<>>
    /\ result = NoResult
    /\ dev = 0
    /\ ops = 0
    /\ inflight = [r \in Slots |-> NoRequest]
    /\ issued = 0
    /\ dec = NoBlob
    /\ calc = NoCalc
    /\ wk = NoWorkouts
    /\ login = NoLogin

\* ------------------------------------------------------------------------
\* POST /amazfit/connect, DELETE /amazfit/credentials
\* ------------------------------------------------------------------------
TokenExchangeBoth(step1, step2) ==
    [ok |-> step1 = "ok" /\ step2 = "ok",
     reqs |-> << <<"req", "tokens", 0, step1>>, <<"req", "login", 0, step2>> >>]

\* get_amazfit_token: the registration-tokens request, then the client-login request
TokenExchange(step1, step2) ==
    IF step1 # "ok" THEN [ok |-> FALSE, reqs |-> << <<"req", "tokens", 0, step1>> >>]
    ELSE [ok |-> step2 = "ok",
          reqs |-> << <<"req", "tokens", 0, step1>>, <<"req", "login", 0, step2>> >>]

ExchangeAnswers == {"ok", "rejected"}

ConnectAccount(u) ==
    /\ pc = "idle"
    /\ \E step1, step2 \in ExchangeAnswers :
         LET ex == TokenExchange(step1, step2)
             cost == IF ex.ok THEN 0 ELSE 1
             existing == CredOf(creds, u)
             row == [user |-> u, app_token |-> "app_token", user_id_amazfit |-> "amazfit_id",
                     email |-> "enc_email", password |-> "enc_password", last_sync |-> <<>>]
         IN  /\ step1 # "ok" => step2 = "ok"
             /\ dev + cost <= MaxDeviations
             /\ dev' = dev + cost
             /\ log' = ex.reqs
             /\ IF ex.ok
                THEN /\ creds' = IF existing # 0
                                 THEN [creds EXCEPT ![existing] =
                                          [@ EXCEPT !.app_token = row.app_token,
                                                    !.user_id_amazfit = row.user_id_amazfit,
                                                    !.email = row.email, !.password = row.password]]
                                 ELSE Append(creds, row)
                     /\ result' = [op |-> "connect", user |-> u, status |-> "ok"]
                ELSE /\ creds' = creds
                     /\ result' = [op |-> "connect", user |-> u, status |-> "error"]
    /\ UNCHANGED <<activity, hrs, stepsTab, pc, sy, sess, ops>>
    /\ UNCHANGED <<conc, dec, local>>

DisconnectAccountCascade(u) ==
    /\ pc = "idle"
    /\ LET existing == CredOf(creds, u)
       IN  /\ creds' = IF existing # 0 THEN RemoveAt(creds, existing) ELSE creds
           /\ activity' = IF existing # 0 THEN SelectSeq(activity, LAMBDA row : row.user # u)
                                           ELSE activity
           /\ result' = [op |-> "disconnect", user |-> u,
                         status |-> IF existing # 0 THEN "ok" ELSE "error"]
    /\ log' = <<>>
    /\ UNCHANGED <<hrs, stepsTab, pc, sy, sess, dev, ops>>
    /\ UNCHANGED <<conc, dec, local>>

\* crud.delete_amazfit_credentials
DisconnectAccount(u) ==
    /\ pc = "idle"
    /\ LET existing == CredOf(creds, u)
       IN  /\ creds' = IF existing # 0 THEN RemoveAt(creds, existing) ELSE creds
           /\ result' = [op |-> "disconnect", user |-> u,
                         status |-> IF existing # 0 THEN "ok" ELSE "error"]
    /\ log' = <<>>
    /\ UNCHANGED <<activity, hrs, stepsTab, pc, sy, sess, dev, ops>>
    /\ UNCHANGED <<conc, dec, local>>

\* ------------------------------------------------------------------------
\* GET /amazfit/day (get_amazfit_day_data)
\* ------------------------------------------------------------------------
\* the request's date at 00:00 UTC, moved to UTC+5:30, as a date
TargetDate(d) == (d * 1440 + 330) \div 1440

\* the view built from the cached rows
CachedView(date_q, cached_activity, cached_hr) ==
    [date |-> date_q,
     heart_rate |-> IF cached_hr # 0 /\ Truthy(hrs[cached_hr].session_data)
                    THEN Get(hrs[cached_hr].session_data, "hr_values", <<>>)
                    ELSE <<>>,
     steps |-> activity[cached_activity].steps,
     calories |-> activity[cached_activity].calories_burned,
     sleep_duration |-> activity[cached_activity].sleep_hours * 36,
     sleep |-> [sleep_time_hours |-> activity[cached_activity].sleep_hours,
                deep_sleep_hours |-> activity[cached_activity].deep_sleep_hours,
                light_sleep_hours |-> activity[cached_activity].light_sleep_hours,
                rem_sleep_hours |-> activity[cached_activity].rem_sleep_hours,
                awake_hours |-> activity[cached_activity].awake_hours,
                sleep_time_seconds |-> activity[cached_activity].sleep_hours * 36],
     hr_stats |-> Get(activity[cached_activity].raw_data, "hr_stats", EmptyDict),
     cached |-> TRUE]

FetchedViewCached(date_q, daily_summary) ==
    [date |-> date_q,
     heart_rate |-> daily_summary.heart_rate,
     steps |-> Get(daily_summary.activity, "steps", 0),
     calories |-> Get(daily_summary.activity, "calories", 0),
     sleep_duration |-> Get(daily_summary.sleep, "sleep_time_seconds", 0),
     sleep |-> daily_summary.sleep,
     hr_stats |-> daily_summary.hr_stats,
     cached |-> TRUE]

\* the view built from a fetched summary
FetchedView(date_q, daily_summary) ==
    [date |-> date_q,
     heart_rate |-> daily_summary.heart_rate,
     steps |-> Get(daily_summary.activity, "steps", 0),
     calories |-> Get(daily_summary.activity, "calories", 0),
     sleep_duration |-> Get(daily_summary.sleep, "sleep_time_seconds", 0),
     sleep |-> daily_summary.sleep,
     hr_stats |-> daily_summary.hr_stats,
     cached |-> FALSE]

IsCachedInverted(cached_activity) == cached_activity # 0 /\ ~Truthy(activity[cached_activity].raw_data)

\* a cached day: a row exists and its raw_data is not empty
IsCached(cached_activity) == cached_activity # 0 /\ Truthy(activity[cached_activity].raw_data)

\* the rows after the caching block of get_amazfit_day_data, before its commit
DayWrites(u, target_date, cached_activity, cached_hr, daily_summary) ==
    LET a == Upsert(activity, <<>>, cached_activity,
                    DayActivityRow(u, target_date, daily_summary))
        heart_rate == daily_summary.heart_rate
        valid_hr == SelectPos(heart_rate)
        h == IF Truthy(heart_rate) /\ Truthy(valid_hr)
             THEN UpsertHr(hrs, <<>>, cached_hr, u, target_date, HrStats(heart_rate), heart_rate)
             ELSE [seen |-> hrs, added |-> <<>>]
    IN  [act |-> InsertAll(a.seen, a.added), hr |-> InsertAll(h.seen, h.added)]

DayResult(u, target_date, status, view) ==
    [op |-> "day", user |-> u, date |-> target_date, status |-> status, view |-> view]

KeepsWrites(committed, written, before) == written

\* db.commit() of the caching block, or db.rollback() in its except branch
CommitOrRollback(committed, written, before) == IF committed THEN written ELSE before

GetDay(u, date_q) ==
    /\ pc = "idle"
    /\ ops < MaxOps
    /\ LET target_date == TargetDate(date_q)
           cached_activity == FirstRow(activity, u, target_date)
           cached_hr == FirstHr(hrs, u, target_date)
           credentials == CredOf(creds, u)
       IN  IF IsCached(cached_activity)
           THEN /\ result' = DayResult(u, target_date, "ok",
                                       CachedView(date_q, cached_activity, cached_hr))
                /\ log' = <<>>
                /\ UNCHANGED <<activity, hrs, dev>>
           ELSE IF credentials = 0
                   \/ ~TruthyStr(creds[credentials].app_token)
                   \/ ~TruthyStr(creds[credentials].user_id_amazfit)
           THEN /\ result' = DayResult(u, target_date, "error", EmptyDict)
                /\ log' = <<>>
                /\ UNCHANGED <<activity, hrs, dev>>
           ELSE \E commit \in Pick("ok", {"fail"}, MaxDeviations - dev) :
                \E ans \in DayAnswers(MaxDeviations - dev - Cost(commit, "ok")) :
                  LET got == GetDailySummary(target_date, ans)
                      w == DayWrites(u, target_date, cached_activity, cached_hr, got.summary)
                      committed == commit = "ok" /\ UniqueOk(w.act)
                  IN  /\ dev' = dev + Departures(ans) + Cost(commit, "ok")
                      /\ activity' = CommitOrRollback(committed, w.act, activity)
                      /\ hrs' = CommitOrRollback(committed, w.hr, hrs)
                      /\ log' = got.reqs \o << <<"commit", "day", target_date,
                                                 IF committed THEN "ok" ELSE "fail">> >>
                      /\ result' = DayResult(u, target_date, "ok", FetchedView(date_q, got.summary))
    /\ ops' = ops + 1
    /\ UNCHANGED <<creds, stepsTab, pc, sy, sess>>
    /\ UNCHANGED <<conc, dec, local>>

\* ------------------------------------------------------------------------
\* POST /amazfit/sync (sync_amazfit_data, AmazfitDataSync)
\* ------------------------------------------------------------------------
NoResults == [activity_synced |-> 0, steps_synced |-> 0, heart_rate_synced |-> 0, sleep_synced |-> 0]

\* the except branch of sync_amazfit_data answers without counts
NoCounts == EmptyDict

\* AmazfitSyncResponse: the counts on success, errors on failure
SyncResult(u, n, repeat, success, results, before, inserted) ==
    [op |-> "sync", user |-> u, days_back |-> n, repeat |-> repeat, success |-> success,
     errors |-> IF success THEN <<>> ELSE <<"error">>,
     rows_before |-> before, inserted |-> inserted] @@ results

\* entries of the log
Entries(kind) == {i \in 1..Len(log) : log[i][1] = kind}

\* the requests sent to one endpoint of the remote service
Requests(ep) == {i \in Entries("req") : log[i][2] = ep}

\* the days one pass of the sync went through
PassDays(pass) == {i \in Entries("day") : log[i][2] = pass}

\* no day of the pass ended in its except branch
NoDayRaised(pass) == \A i \in PassDays(pass) : log[i][4] # "raised"

\* the request that just finished was a sync of the same user and range that found
\* no activity row of the user and in which no day of the activity pass failed
Repeats(u, n) ==
    /\ result.op = "sync" /\ result.success /\ result.user = u /\ result.days_back = n
    /\ result.rows_before = 0 /\ NoDayRaised("activity")

Running == [op |-> "running"]

RowsOf(tab, u) == Cardinality({i \in 1..Len(tab) : tab[i].user = u})

PassLocalsExclusive(u, n, repeat, results, before, inserted) ==
    [user |-> u, days_back |-> n, repeat |-> repeat, results |-> results,
     rows_before |-> before, inserted |-> inserted,
     start_date |-> Today - n + 1, end_date |-> Today, current_date |-> Today - n + 1,
     synced_count |-> 0]

\* start_date, end_date and the loop variables of one pass
PassLocals(u, n, repeat, results, before, inserted) ==
    [user |-> u, days_back |-> n, repeat |-> repeat, results |-> results,
     rows_before |-> before, inserted |-> inserted,
     start_date |-> Today - n, end_date |-> Today, current_date |-> Today - n,
     synced_count |-> 0]

FreshSession(a, h, st) ==
    [act |-> a, hr |-> h, steps |-> st, newAct |-> <<>>, newHr |-> <<>>, newSteps |-> <<>>]

StampLastSync(tab, u, now) ==
    IF CredOf(tab, u) = 0 THEN tab
    ELSE [tab EXCEPT ![CredOf(tab, u)].last_sync = <<now>>]

\* sync_all_data up to the first loop: last_sync, its commit, _init_service, the range
SyncStart(u, n) ==
    /\ pc = "idle"
    /\ ops < MaxOps
    /\ LET credentials == CredOf(creds, u)
           before == RowsOf(activity, u)
       IN  IF credentials = 0
           THEN /\ result' = SyncResult(u, n, Repeats(u, n), FALSE, NoCounts, before, 0)
                /\ log' = <<>>
                /\ UNCHANGED <<creds, pc, sy, sess, dev>>
           ELSE \E commit \in Pick("ok", {"fail"}, MaxDeviations - dev) :
                      /\ dev' = dev + Cost(commit, "ok")
                      /\ IF commit = "ok"
                         THEN /\ creds' = StampLastSync(creds, u, Today)
                              /\ log' = << <<"write", "last_sync", Today, "ok">> >>
                              /\ pc' = "activity"
                              /\ sy' = PassLocals(u, n, Repeats(u, n), NoResults, before, 0)
                              /\ sess' = FreshSession(activity, hrs, stepsTab)
                              /\ result' = Running
                         ELSE /\ log' = << <<"write", "last_sync", Today, "fail">> >>
                              /\ result' = SyncResult(u, n, Repeats(u, n), FALSE, NoCounts, before, 0)
                              /\ UNCHANGED <<creds, pc, sy, sess>>
    /\ ops' = ops + 1
    /\ UNCHANGED <<activity, hrs, stepsTab>>
    /\ UNCHANGED <<conc, dec, local>>

DayEvent(pass, d, status) == <<"day", pass, d, status>>

LoopContinuesExclusive(locals) == locals.current_date < locals.end_date

\* while current_date <= end_date
LoopContinues(locals) == locals.current_date <= locals.end_date

AfterRaiseBreak(locals) == [locals EXCEPT !.current_date = locals.end_date + 1]

\* except Exception: the day is logged, and current_date += timedelta(days=1) follows
AfterRaise(locals) == [locals EXCEPT !.current_date = @ + 1]

\* the end of the try block: synced_count += 1, then current_date += timedelta(days=1)
AfterSynced(locals) == [locals EXCEPT !.current_date = @ + 1, !.synced_count = @ + 1]

\* one iteration of the loop of sync_activity_data
SyncActivityDay ==
    /\ pc = "activity"
    /\ LoopContinues(sy)
    /\ \E ans \in DayAnswers(MaxDeviations - dev) :
         LET d == sy.current_date
             got == GetDailySummary(d, ans)
             daily_summary == got.summary
             existing == FirstRow(sess.act, sy.user, d)
             activity_data == ProcessActivityData(daily_summary.activity)
             sleep_data == ProcessSleepData(daily_summary.sleep)
             hr_stats == ProcessHeartRateData(daily_summary.heart_rate)
             raised == activity_data.raised \/ sleep_data.raised
             a == Upsert(sess.act, sess.newAct, existing,
                         SyncActivityRow(sy.user, d, activity_data.val, sleep_data.val,
                                         daily_summary))
             h == IF Truthy(hr_stats)
                  THEN UpsertHr(sess.hr, sess.newHr, FirstHr(sess.hr, sy.user, d),
                                sy.user, d, hr_stats, daily_summary.heart_rate)
                  ELSE [seen |-> sess.hr, added |-> sess.newHr]
             fetch == IF got.fetched THEN "fetched" ELSE "nofetch"
         IN  /\ dev' = dev + Departures(ans)
             /\ IF raised
                THEN /\ sess' = sess
                     /\ sy' = AfterRaise(sy)
                     /\ log' = log \o <<DayEvent("activity", d, "raised")>>
                ELSE /\ sess' = [sess EXCEPT !.act = a.seen, !.newAct = a.added,
                                             !.hr = h.seen, !.newHr = h.added]
                     /\ sy' = AfterSynced(sy)
                     /\ log' = log \o <<DayEvent("activity", d, fetch)>>
    /\ UNCHANGED <<creds, activity, hrs, stepsTab, pc, result, ops>>
    /\ UNCHANGED <<conc, dec, local>>

\* db.commit() of a pass: the rows the session holds reach the tables, or none does
Commit(ok) ==
    LET a == InsertAll(sess.act, sess.newAct)
        h == InsertAll(sess.hr, sess.newHr)
        st == InsertAll(sess.steps, sess.newSteps)
        done == ok /\ UniqueOk(a) /\ UniqueOk(st)
    IN  [done |-> done,
         act |-> IF done THEN a ELSE activity,
         hr |-> IF done THEN h ELSE hrs,
         steps |-> IF done THEN st ELSE stepsTab]

\* sync_all_data: where the count a pass returns goes
Counted(pass, results, n) ==
    IF pass = "activity" THEN [results EXCEPT !.activity_synced = n, !.sleep_synced = n]
    ELSE IF pass = "steps" THEN [results EXCEPT !.steps_synced = n]
    ELSE [results EXCEPT !.heart_rate_synced = n]

\* the end of a pass: commit, then the next pass starts or the request returns
EndPass(pass, next) ==
    /\ pc = pass
    /\ ~LoopContinues(sy)
    /\ \E commit \in Pick("ok", {"fail"}, MaxDeviations - dev) :
         LET c == Commit(commit = "ok")
             results == Counted(pass, sy.results, sy.synced_count)
             inserted == IF pass = "activity" THEN Len(sess.newAct) ELSE sy.inserted
         IN  /\ dev' = dev + Cost(commit, "ok")
             /\ activity' = c.act
             /\ hrs' = c.hr
             /\ stepsTab' = c.steps
             /\ log' = log \o << <<"commit", pass, 0, IF c.done THEN "ok" ELSE "fail">> >>
             /\ creds' = creds
             /\ IF c.done /\ next # "idle"
                THEN /\ pc' = next
                     /\ sy' = PassLocals(sy.user, sy.days_back, sy.repeat, results,
                                         sy.rows_before, inserted)
                     /\ sess' = FreshSession(c.act, c.hr, c.steps)
                     /\ UNCHANGED result
                ELSE /\ pc' = "idle"
                     /\ sy' = NoSync
                     /\ sess' = NoSession
                     /\ result' = SyncResult(sy.user, sy.days_back, sy.repeat, c.done,
                                             IF c.done THEN results ELSE NoCounts,
                                             sy.rows_before, inserted)
    /\ UNCHANGED <<ops>>
    /\ UNCHANGED <<conc, dec, local>>

SyncActivityCommit ==
    EndPass("activity", "steps")

\* one iteration of the loop of sync_steps_data
SyncStepsDay ==
    /\ pc = "steps"
    /\ LoopContinues(sy)
    /\ \E ans \in Pick(LegacyUsual, ActOther, MaxDeviations - dev) :
         LET d == sy.current_date
             processed_data == ProcessActivityData(ans.body)
             raised == ans.status # "ok" \/ processed_data.raised
             existing == FirstRow(sess.steps, sy.user, d)
             p == processed_data.val
             row == [user |-> sy.user, date |-> d,
                     total_steps |-> Get(p, "steps", 0),
                     hourly_steps |-> Get(p, "hourly_steps", <<>>),
                     goal_steps |-> IF existing # 0 THEN sess.steps[existing].goal_steps ELSE 10000,
                     calories_burned |-> Get(p, "calories_burned", 0),
                     distance_km |-> Numeric2(Get(p, "distance_km", Zero)),
                     active_minutes |-> Get(p, "active_minutes", 0),
                     raw_data |-> ans.body]
             st == Upsert(sess.steps, sess.newSteps, existing, row)
         IN  /\ dev' = dev + Cost(ans, LegacyUsual)
             /\ IF raised
                THEN /\ sess' = sess
                     /\ sy' = AfterRaise(sy)
                     /\ log' = log \o <<DayEvent("steps", d, "raised")>>
                ELSE /\ sess' = [sess EXCEPT !.steps = st.seen, !.newSteps = st.added]
                     /\ sy' = AfterSynced(sy)
                     /\ log' = log \o <<DayEvent("steps", d, "fetched")>>
    /\ UNCHANGED <<creds, activity, hrs, stepsTab, pc, result, ops>>
    /\ UNCHANGED <<conc, dec, local>>

SyncStepsCommit ==
    EndPass("steps", "hr")

\* one iteration of the loop of sync_heart_rate_data
SyncHrDay ==
    /\ pc = "hr"
    /\ LoopContinues(sy)
    /\ \E ans \in Pick(LegacyUsual, HrOther, MaxDeviations - dev) :
         LET d == sy.current_date
             hr_values == IF ans.status = "ok" /\ Has(ans.body, "heartRate")
                          THEN DecodeHr16(ans.body.heartRate) ELSE <<>>
             hr_stats == ProcessHeartRateData(hr_values)
             h == UpsertHr(sess.hr, sess.newHr, FirstHr(sess.hr, sy.user, d),
                           sy.user, d, hr_stats, hr_values)
         IN  /\ dev' = dev + Cost(ans, LegacyUsual)
             /\ IF ans.status # "ok"
                THEN /\ sess' = sess
                     /\ sy' = AfterRaise(sy)
                     /\ log' = log \o <<DayEvent("hr", d, "raised")>>
                ELSE IF Truthy(hr_stats)
                THEN /\ sess' = [sess EXCEPT !.hr = h.seen, !.newHr = h.added]
                     /\ sy' = AfterSynced(sy)
                     /\ log' = log \o <<DayEvent("hr", d, "fetched")>>
                ELSE /\ sess' = sess
                     /\ sy' = [sy EXCEPT !.current_date = d + 1]
                     /\ log' = log \o <<DayEvent("hr", d, "nostats")>>
    /\ UNCHANGED <<creds, activity, hrs, stepsTab, pc, result, ops>>
    /\ UNCHANGED <<conc, dec, local>>

SyncHrCommit ==
    EndPass("hr", "idle")

\* ------------------------------------------------------------------------
\* Concurrent requests: POST /amazfit/refresh-token and GET /amazfit/day, each
\* served by its own thread and database session, step by step
\* ------------------------------------------------------------------------
\* the dates asked of /amazfit/day by concurrent requests
ConcDates == {Today}

\* the app tokens the remote service hands out, in the order it does
TokenNames == <<"app_token_1", "app_token_2", "app_token_3", "app_token_4">>

\* threads are taken in order
FreeSlot(r) == inflight[r] = NoRequest /\ \A q \in Slots : q < r => inflight[q] # NoRequest

At(r, kind, where) == inflight[r].kind = kind /\ inflight[r].pc = where

Finished(r, status) == [inflight[r] EXCEPT !.pc = "done", !.status = status]

\* refresh_amazfit_token: the credentials query
RefreshStart(r, u) ==
    /\ FreeSlot(r)
    /\ inflight' = [inflight EXCEPT ![r] =
                       [kind |-> "refresh", user |-> u, token |-> "", status |-> "",
                        pc |-> IF CredOf(creds, u) = 0 THEN "done" ELSE "exchange"]]
    /\ UNCHANGED <<creds, activity, hrs, stepsTab, pc, sy, sess, log, result, dev, ops, issued, dec, local>>

\* refresh_amazfit_token: AmazfitService.from_credentials(email, password)
RefreshExchange(r) ==
    /\ At(r, "refresh", "exchange")
    /\ issued < Len(TokenNames)
    /\ \E step1, step2 \in ExchangeAnswers :
         LET ex == TokenExchange(step1, step2)
             cost == IF ex.ok THEN 0 ELSE 1
         IN  /\ step1 # "ok" => step2 = "ok"
             /\ dev + cost <= MaxDeviations
             /\ dev' = dev + cost
             /\ issued' = IF ex.ok THEN issued + 1 ELSE issued
             /\ inflight' = [inflight EXCEPT ![r] =
                                IF ex.ok
                                THEN [@ EXCEPT !.pc = "write", !.token = TokenNames[issued + 1]]
                                ELSE Finished(r, "error")]
    /\ UNCHANGED <<creds, activity, hrs, stepsTab, pc, sy, sess, log, result, ops, dec, local>>

\* refresh_amazfit_token: credentials.app_token = service.app_token; db.commit()
RefreshWrite(r) ==
    /\ At(r, "refresh", "write")
    /\ LET credentials == CredOf(creds, inflight[r].user)
       IN  IF credentials = 0
           THEN /\ inflight' = [inflight EXCEPT ![r] = Finished(r, "error")]
                /\ creds' = creds
           ELSE /\ inflight' = [inflight EXCEPT ![r] = Finished(r, "ok")]
                /\ creds' = [creds EXCEPT ![credentials].app_token = inflight[r].token]
    /\ UNCHANGED <<activity, hrs, stepsTab, pc, sy, sess, log, result, dev, ops, issued, dec, local>>

DayRequest(u, date_q, where, status, seen_activity, seen_hr, view) ==
    [kind |-> "day", user |-> u, date |-> TargetDate(date_q), date_q |-> date_q,
     pc |-> where, status |-> status,
     seen_activity |-> seen_activity, seen_hr |-> seen_hr,
     daily_summary |-> EmptyDict, view |-> view]

\* get_amazfit_day_data up to the fetch: the cache check and the credentials
DayCheck(r, u, date_q) ==
    /\ FreeSlot(r)
    /\ LET target_date == TargetDate(date_q)
           cached_activity == FirstRow(activity, u, target_date)
           cached_hr == FirstHr(hrs, u, target_date)
           credentials == CredOf(creds, u)
       IN  inflight' = [inflight EXCEPT ![r] =
              IF IsCached(cached_activity)
              THEN DayRequest(u, date_q, "done", "ok", TRUE, cached_hr # 0,
                              CachedView(date_q, cached_activity, cached_hr))
              ELSE IF credentials = 0
                      \/ ~TruthyStr(creds[credentials].app_token)
                      \/ ~TruthyStr(creds[credentials].user_id_amazfit)
              THEN DayRequest(u, date_q, "done", "error", cached_activity # 0, cached_hr # 0,
                              EmptyDict)
              ELSE DayRequest(u, date_q, "fetch", "", cached_activity # 0, cached_hr # 0,
                              EmptyDict)]
    /\ UNCHANGED <<creds, activity, hrs, stepsTab, pc, sy, sess, log, result, dev, ops, issued, dec, local>>

\* get_amazfit_day_data: service.get_daily_summary(target_date)
DayFetch(r) ==
    /\ At(r, "day", "fetch")
    /\ \E ans \in DayAnswers(MaxDeviations - dev) :
         /\ dev' = dev + Departures(ans)
         /\ inflight' = [inflight EXCEPT ![r] =
                            [@ EXCEPT !.pc = "persist",
                                      !.daily_summary = GetDailySummary(inflight[r].date, ans).summary]]
    /\ UNCHANGED <<creds, activity, hrs, stepsTab, pc, sy, sess, log, result, ops, issued, dec, local>>

\* get_amazfit_day_data: the caching block with its commit, and the response; the rows
\* found by the cache check are updated, the rows not found then are inserted
DayPersist(r) ==
    /\ At(r, "day", "persist")
    /\ \E commit \in Pick("ok", {"fail"}, MaxDeviations - dev) :
         LET q == inflight[r]
             cached_activity == IF q.seen_activity THEN FirstRow(activity, q.user, q.date) ELSE 0
             cached_hr == IF q.seen_hr THEN FirstHr(hrs, q.user, q.date) ELSE 0
             w == DayWrites(q.user, q.date, cached_activity, cached_hr, q.daily_summary)
             committed == commit = "ok" /\ UniqueOk(w.act)
         IN  /\ dev' = dev + Cost(commit, "ok")
             /\ activity' = CommitOrRollback(committed, w.act, activity)
             /\ hrs' = CommitOrRollback(committed, w.hr, hrs)
             /\ inflight' = [inflight EXCEPT ![r] =
                                [@ EXCEPT !.pc = "done", !.status = "ok",
                                          !.view = FetchedView(q.date_q, q.daily_summary)]]
    /\ UNCHANGED <<creds, stepsTab, pc, sy, sess, log, result, ops, issued, dec, local>>

\* ------------------------------------------------------------------------
\* Specification
\* ------------------------------------------------------------------------
Next ==
    \/ \E u \in Users : ConnectAccount(u)
    \/ \E u \in Users : DisconnectAccount(u)
    \/ \E u \in Users, d \in QueryDates : GetDay(u, d)
    \/ \E u \in Users, n \in DaysBackChoices : SyncStart(u, n)
    \/ SyncActivityDay
    \/ SyncActivityCommit
    \/ SyncStepsDay
    \/ SyncStepsCommit
    \/ SyncHrDay
    \/ SyncHrCommit

Spec == Init /\ [][Next]_vars

\* requests that overlap: an account is connected, then refreshes and day requests run
\* each on its own thread
NextConc ==
    \/ \E u \in Users : ConnectAccount(u)
    \/ \E r \in Slots, u \in Users : RefreshStart(r, u)
    \/ \E r \in Slots : RefreshExchange(r)
    \/ \E r \in Slots : RefreshWrite(r)
    \/ \E r \in Slots, u \in Users, d \in ConcDates : DayCheck(r, u, d)
    \/ \E r \in Slots : DayFetch(r)
    \/ \E r \in Slots : DayPersist(r)

SpecConc == Init /\ [][NextConc]_vars

\* ------------------------------------------------------------------------
\* POST /amazfit/refresh-token and POST /hr, one request after another
\* ------------------------------------------------------------------------
AfterExchangeWritesAnyway(tab, u, ok, app_token) ==
    [tab EXCEPT ![CredOf(tab, u)].app_token = app_token]

\* refresh_amazfit_token: the token is written and committed when the exchange returned,
\* and the session is rolled back when it raised
AfterExchange(tab, u, ok, app_token) ==
    IF ok THEN [tab EXCEPT ![CredOf(tab, u)].app_token = app_token] ELSE tab

\* refresh_amazfit_token, run on its own
RefreshToken(u) ==
    /\ pc = "idle"
    /\ ops < MaxOps
    /\ issued < Len(TokenNames)
    /\ IF CredOf(creds, u) = 0
       THEN /\ result' = [op |-> "refresh", user |-> u, status |-> "error"]
            /\ log' = <<>>
            /\ UNCHANGED <<creds, dev, issued>>
       ELSE \E step1, step2 \in ExchangeAnswers :
              LET ex == TokenExchange(step1, step2)
                  cost == IF ex.ok THEN 0 ELSE 1
              IN  /\ step1 # "ok" => step2 = "ok"
                  /\ dev + cost <= MaxDeviations
                  /\ dev' = dev + cost
                  /\ issued' = IF ex.ok THEN issued + 1 ELSE issued
                  /\ log' = ex.reqs
                  /\ creds' = AfterExchange(creds, u, ex.ok, TokenNames[issued + 1])
                  /\ result' = [op |-> "refresh", user |-> u,
                                status |-> IF ex.ok THEN "ok" ELSE "error"]
    /\ ops' = ops + 1
    /\ UNCHANGED <<activity, hrs, stepsTab, pc, sy, sess, inflight, dec, local>>

\* the session a user logs by hand: HRSessionCreate with a session_data of the user's own
ManualSession(u) ==
    [user |-> u, avg_hr |-> 70, max_hr |-> 90, min_hr |-> 60, duration_minutes |-> 30,
     session_data |-> [note |-> "manual"],
     logged_at |-> [day |-> Today, minute |-> 600]]

\* log_hr_session (crud.create_hr_session): logged_at is the time of the request
LogHrSession(u) ==
    /\ pc = "idle"
    /\ ops < MaxOps
    /\ hrs' = InsertRow(hrs, ManualSession(u))
    /\ result' = [op |-> "log_hr", user |-> u, status |-> "ok"]
    /\ log' = <<>>
    /\ ops' = ops + 1
    /\ UNCHANGED <<creds, activity, stepsTab, pc, sy, sess, dev>>
    /\ UNCHANGED <<conc, dec, local>>

\* the endpoints of a user one after another, each sync over today only
NextAccount ==
    \/ \E u \in Users : ConnectAccount(u)
    \/ \E u \in Users : DisconnectAccount(u)
    \/ \E u \in Users : RefreshToken(u)
    \/ \E u \in Users : LogHrSession(u)
    \/ \E u \in Users, d \in QueryDates : GetDay(u, d)
    \/ \E u \in Users : SyncStart(u, 0)
    \/ SyncActivityDay
    \/ SyncActivityCommit
    \/ SyncStepsDay
    \/ SyncStepsCommit
    \/ SyncHrDay
    \/ SyncHrCommit

SpecAccount == Init /\ [][NextAccount]_vars

\* ------------------------------------------------------------------------
\* The heart-rate decoders on their own
\* ------------------------------------------------------------------------
\* byte values around the limits the decoders test
ByteChoices == {0, 1, 29, 30, 44, 45, 239, 240, 255}

\* the blobs after base64.b64decode
Blobs == UNION {[1..n -> ByteChoices] : n \in 0..MaxBlobLen}

\* everything but dec
rest == <<creds, activity, hrs, stepsTab, pc, sy, sess, log, result, dev, ops, inflight, issued, local>>

\* a response carries a heart-rate blob
ReceiveBlob(blob) ==
    /\ dec = NoBlob
    /\ dec' = [blob |-> blob, encoding |-> "received", hr_values |-> <<>>]
    /\ UNCHANGED rest

\* get_heart_rate_data decodes it as 16-bit little-endian groups
DecodePaired16 ==
    /\ dec.encoding = "received"
    /\ dec' = [dec EXCEPT !.encoding = "le16", !.hr_values = DecodeHr16(dec.blob)]
    /\ UNCHANGED rest

\* decode_hr_blob decodes it as one byte per minute
DecodePacked8 ==
    /\ dec.encoding = "received"
    /\ dec' = [dec EXCEPT !.encoding = "byte8", !.hr_values = DecodeHrBlob(dec.blob)]
    /\ UNCHANGED rest

\* _process_heart_rate_data is handed the decoded series
HeartRateStatistics ==
    /\ dec.encoding \in {"le16", "byte8"}
    /\ calc = NoCalc
    /\ calc' = [fn |-> "_process_heart_rate_data",
                input |-> dec.hr_values,
                output |-> ProcessHeartRateData(dec.hr_values)]
    /\ UNCHANGED <<tables, request, conc, dec, wk, login>>

NextDecode ==
    \/ \E blob \in Blobs : ReceiveBlob(blob)
    \/ DecodePaired16
    \/ DecodePacked8
    \/ HeartRateStatistics

SpecDecode == Init /\ [][NextDecode]_vars

\* ------------------------------------------------------------------------
\* The decoding of a band_data summary on its own
\* ------------------------------------------------------------------------
\* the slp groups the remote may send: fields with distinct keys, in the order of the JSON
\* object; tt stands for a field that is neither a window end nor a sleep stage
SleepKeys == {"st", "ed", "dp", "tt"}
SleepValues == {-5, 0, 1000, 6400}
SleepGroups ==
    {g \in UNION {[1..n -> SleepKeys \X SleepValues] : n \in 0..MaxSleepFields} :
        \A i, j \in 1..Len(g) : g[i][1] = g[j][1] => i = j}

\* the groups of a decoded summary
Groups == {"stp", "slp", "hrv", "wkt", "evt"}

GroupOf(g, slp) ==
    CASE g = "stp" -> [ttl |-> 8342, cal |-> 210]
      [] g = "slp" -> slp
      [] g = "hrv" -> [avg |-> 42]
      [] g = "wkt" -> << [trackid |-> 7] >>
      [] g = "evt" -> << [type |-> 3] >>

\* json.loads of the summary: the groups that are present
SummaryOf(present, slp) == [g \in present |-> GroupOf(g, slp)]

\* get_daily_summary is handed a band_data answer whose summary has these groups
DecodeSummary(present, slp) ==
    /\ calc = NoCalc
    /\ LET band_data == [data |-> << [summary |-> Blob(SummaryOf(present, slp))] >>]
       IN  calc' = [fn |-> "get_daily_summary",
                    input |-> SummaryOf(present, slp),
                    output |-> SummaryOfBand(Today, band_data)]
    /\ UNCHANGED <<tables, request, conc, dec, wk, login>>

NextSummary ==
    \E present \in SUBSET Groups :
        \E slp \in (IF "slp" \in present THEN SleepGroups ELSE {<<>>}) :
            DecodeSummary(present, slp)

SpecSummary == Init /\ [][NextSummary]_vars

\* ------------------------------------------------------------------------
\* get_amazfit_token on its own
\* ------------------------------------------------------------------------
\* the answers to the registration-tokens request: an HTTP error, or an answer with or
\* without a Location header, whose query string has some of these parameters
Step1Responses ==
    {[http |-> "h401", redirect |-> FALSE, params |-> {}],
     [http |-> "ok", redirect |-> FALSE, params |-> {}]}
    \cup {[http |-> "ok", redirect |-> TRUE, params |-> p] :
             p \in SUBSET {"access", "error", "country_code"}}

\* the answers to the client-login request
Step2Responses ==
    {[http |-> h, body |-> b] : h \in {"ok", "h500"}, b \in {"token_info", "error_code"}}

\* resp.raise_for_status(), resp.headers["Location"], "error" in params, params["access"]
Step1Outcome(resp) ==
    IF resp.http # "ok" THEN "rejected"
    ELSE IF ~resp.redirect THEN "nolocation"
    ELSE IF "error" \in resp.params THEN "error"
    ELSE IF "access" \notin resp.params THEN "nocode"
    ELSE "ok"

\* res.raise_for_status(), "error_code" in info
Step2Outcome(resp) ==
    IF resp.http # "ok" THEN "rejected"
    ELSE IF resp.body = "error_code" THEN "error_code"
    ELSE "ok"

\* one call of get_amazfit_token
GetAmazfitToken(resp1, resp2) ==
    /\ Len(login) < MaxCalls
    /\ LET ex == TokenExchange(Step1Outcome(resp1), Step2Outcome(resp2))
       IN  login' = Append(login,
                           [answers |-> IF Len(ex.reqs) = 2 THEN <<resp1, resp2>> ELSE <<resp1>>,
                            sent |-> ex.reqs,
                            outcome |-> IF ex.ok THEN "token" ELSE "raised"])
    /\ UNCHANGED <<tables, request, conc, dec, calc, wk>>

NextLogin ==
    \E resp1 \in Step1Responses, resp2 \in Step2Responses : GetAmazfitToken(resp1, resp2)

SpecLogin == Init /\ [][NextLogin]_vars

\* ------------------------------------------------------------------------
\* AmazfitService.get_workout_history on its own
\* ------------------------------------------------------------------------
TrackIds == {"t1", "t2"}

\* the values of 'next': cursors, and None
Cursors == {"c1", "c2"}
NoCursor == ""

\* the pages the remote may answer with: with or without 'trackInfo', with or without 'next'
TrackLists == UNION {[1..n -> TrackIds] : n \in 0..MaxPage}
Pages ==
    {[trackInfo |-> t, next |-> n] : t \in TrackLists, n \in Cursors \cup {NoCursor}}
    \cup {[next |-> n] : n \in Cursors \cup {NoCursor}}

\* all_workouts[:limit]
Take(s, n) == SubSeq(s, 1, IF Len(s) < n THEN Len(s) ELSE n)

\* get_workout_history(limit) up to its loop
CallWorkoutHistory(limit) ==
    /\ wk = NoWorkouts
    /\ wk' = [pc |-> "loop", limit |-> limit, all_workouts |-> <<>>, next_track_id |-> NoCursor,
              returned |-> <<>>]
    /\ UNCHANGED <<tables, request, conc, dec, calc, login>>

\* one iteration of its loop: the request, the page, and the test that ends the loop
WorkoutPage(ans) ==
    /\ wk.pc = "loop"
    /\ IF ans.status # "ok"
       THEN wk' = [wk EXCEPT !.pc = "raised"]
       ELSE LET response == ans.body
                all_workouts == wk.all_workouts \o Get(response, "trackInfo", <<>>)
                next_track_id == Get(response, "next", NoCursor)
            IN  IF ~TruthyStr(next_track_id) \/ Len(all_workouts) >= wk.limit
                THEN wk' = [wk EXCEPT !.pc = "returned", !.all_workouts = all_workouts,
                                      !.next_track_id = next_track_id,
                                      !.returned = Take(all_workouts, wk.limit)]
                ELSE wk' = [wk EXCEPT !.all_workouts = all_workouts,
                                      !.next_track_id = next_track_id]
    /\ UNCHANGED <<tables, request, conc, dec, calc, login>>

NextPage == \E ans \in {Ok(page) : page \in Pages} \cup {Fail("h500")} : WorkoutPage(ans)

NextWorkouts ==
    \/ \E limit \in 1..MaxLimit : CallWorkoutHistory(limit)
    \/ NextPage

\* the call keeps running as long as the remote answers
SpecWorkouts == Init /\ [][NextWorkouts]_vars /\ WF_vars(NextPage)

\* ------------------------------------------------------------------------
\* What a request left in the log
\* ------------------------------------------------------------------------
RECURSIVE DatesFrom(_, _)
DatesFrom(pass, i) ==
    IF i > Len(log) THEN <<>>
    ELSE IF i \in PassDays(pass) THEN <<log[i][3]>> \o DatesFrom(pass, i + 1)
    ELSE DatesFrom(pass, i + 1)

Passes == {"activity", "steps", "hr"}

DayFinished == result.op = "day" /\ result.status = "ok"
SyncFinished == result.op = "sync" /\ result.success

\* a day request that went to the remote service
DayFetched == DayFinished /\ Requests("band") # {}

HasCachedRow(u, d) ==
    \E i \in Matching(activity, u, d) : Truthy(activity[i].raw_data)

\* ------------------------------------------------------------------------
\* C1
\* ------------------------------------------------------------------------
\* C1: a day request for a (user, date) whose activity row has a non-empty raw payload
\* sends nothing to the remote service, writes nothing, and answers with cached = true.
C1_CachedDayIsServedLocally ==
    [][ (ops' = ops + 1 /\ result'.op = "day" /\ HasCachedRow(result'.user, result'.date))
        => /\ result'.status = "ok"
           /\ result'.view.cached = TRUE
           /\ log' = <<>>
           /\ UNCHANGED <<activity, hrs>> ]_vars

\* a day has been served from the cache
C1_Witness ==
    /\ DayFinished /\ result.view.cached = TRUE
    /\ HasCachedRow(result.user, result.date)
    /\ log = <<>>

\* ------------------------------------------------------------------------
\* C2
\* ------------------------------------------------------------------------
\* C2: a day whose fetch from the remote service failed, in a day request or in a sync,
\* gets no activity row with a non-empty raw payload, so that a later request asks the
\* remote service again.
C2_FailedDayIsNotCached ==
    /\ (DayFetched /\ \E i \in Requests("band") : log[i][4] \in {"h404", "h401", "h500"})
          => ~HasCachedRow(result.user, result.date)
    /\ SyncFinished
          => \A i \in PassDays("activity") :
                log[i][4] = "nofetch" => ~HasCachedRow(result.user, log[i][3])

\* ------------------------------------------------------------------------
\* C3
\* ------------------------------------------------------------------------
\* C3: a day request whose band_data request is rejected for authentication exchanges the
\* token once and sends the band_data request once more.
C3_AuthRejectionRefreshesAndRetries ==
    (DayFetched /\ log[1] = <<"req", "band", result.date, "h401">>)
       => /\ Cardinality(Requests("tokens")) = 1
          /\ Cardinality(Requests("band")) = 2

\* ------------------------------------------------------------------------
\* C4
\* ------------------------------------------------------------------------
\* C4, as stated: two syncs with days_back = 3, the first on an empty store, leave
\* exactly 3 activity rows of the user, and the second inserts none.
C4_ThreeRowsAfterTwoSyncs ==
    (SyncFinished /\ result.repeat /\ result.days_back = 3 /\ NoDayRaised("activity"))
       => /\ RowsOf(activity, result.user) = 3
          /\ result.inserted = 0

\* C4, amended: two syncs with the same days_back, the first on a store without activity
\* rows of the user, no day failing in either, leave exactly days_back + 1 rows of the
\* user (4 for days_back = 3), one for each day of today - days_back .. today, and the
\* second inserts none.
C4_RangeRowsAfterTwoSyncs ==
    (SyncFinished /\ result.repeat /\ NoDayRaised("activity"))
       => /\ RowsOf(activity, result.user) = result.days_back + 1
          /\ \A d \in (Today - result.days_back)..Today :
                Cardinality(Matching(activity, result.user, d)) = 1
          /\ result.inserted = 0

\* the second of two syncs with days_back = 3 has returned
C4_Witness ==
    /\ SyncFinished /\ result.repeat /\ result.days_back = 3 /\ NoDayRaised("activity")
    /\ RowsOf(activity, result.user) = 4

\* ------------------------------------------------------------------------
\* C5
\* ------------------------------------------------------------------------
\* C5: whatever day requests and syncs ran one after another, the store holds at most one
\* activity row and at most one heart-rate session for a (user, date).
C5_OneRowPerUserAndDate ==
    \A u \in Users : \A d \in (Today - MaxDaysBack)..Today :
        /\ Cardinality(Matching(activity, u, d)) <= 1
        /\ Cardinality(HrMatching(hrs, u, d)) <= 1

\* a second sync has written the days a first one had written, heart-rate sessions included
C5_Witness ==
    /\ SyncFinished /\ result.repeat /\ result.rows_before > 0
    /\ \E d \in QueryDates :
          Matching(activity, result.user, d) # {} /\ HrMatching(hrs, result.user, d) # {}

\* ------------------------------------------------------------------------
\* C6
\* ------------------------------------------------------------------------
\* C6: the activity_synced count of a sync is the number of days of the range whose fetch
\* from the remote service succeeded.
C6_CountIsFetchedDays ==
    SyncFinished
       => result.activity_synced
             = Cardinality({i \in PassDays("activity") : log[i][4] = "fetched"})

\* ------------------------------------------------------------------------
\* C7
\* ------------------------------------------------------------------------
\* C7: in each of the three loops of a sync, a day that failed is followed by every later
\* day of the range, and the days that went through are in the store when the sync returns.
C7_FailedDayDoesNotStopTheLoop ==
    SyncFinished
       => /\ \A pass \in Passes : \A i \in PassDays(pass) :
                log[i][4] = "raised"
                   => \A d \in (log[i][3] + 1)..Today :
                         \E j \in PassDays(pass) : j > i /\ log[j][3] = d
          /\ \A i \in PassDays("activity") :
                log[i][4] # "raised" => HasCachedRow(result.user, log[i][3])
          /\ \A i \in PassDays("steps") :
                log[i][4] = "fetched" => Matching(stepsTab, result.user, log[i][3]) # {}
          /\ \A i \in PassDays("hr") :
                log[i][4] = "fetched" => HrMatching(hrs, result.user, log[i][3]) # {}

\* a sync has returned in which a day of the activity loop failed and a later one went through
C7_Witness ==
    /\ SyncFinished
    /\ \E i, j \in PassDays("activity") :
          /\ i < j /\ log[i][4] = "raised" /\ log[j][4] # "raised"
          /\ HasCachedRow(result.user, log[j][3])
          /\ ~HasCachedRow(result.user, log[i][3])

\* ------------------------------------------------------------------------
\* C8
\* ------------------------------------------------------------------------
\* C8: each pass of a sync goes through the days today - days_back .. today, both ends
\* included, each day once, in ascending order.
C8_PassCoversTheRangeInOrder ==
    \A pass \in Passes :
        (\E i \in Entries("commit") : log[i][2] = pass)
           => LET n == IF pc = "idle" THEN result.days_back ELSE sy.days_back
              IN  DatesFrom(pass, 1) = [k \in 1..(n + 1) |-> Today - n + k - 1]

\* a sync over more than one day has gone through its three passes
C8_Witness ==
    /\ SyncFinished /\ result.days_back = MaxDaysBack
    /\ \A pass \in Passes : Len(DatesFrom(pass, 1)) = MaxDaysBack + 1

\* ------------------------------------------------------------------------
\* C9
\* ------------------------------------------------------------------------
\* C9: a sync writes last_sync of the credentials once, and after the last day of its
\* last loop.
C9_LastSyncWrittenAfterTheDays ==
    SyncFinished
       => /\ Cardinality(Entries("write")) = 1
          /\ \A w \in Entries("write") : \A i \in Entries("day") : i < w

\* ------------------------------------------------------------------------
\* C10
\* ------------------------------------------------------------------------
\* C10: a day request on a cache miss to which the remote service answers 404 or with no
\* data ends successfully, with cached = false, steps = 0, calories = 0, no heart-rate
\* values and an empty sleep object.
C10_NoDataGivesEmptyDay ==
    (result.op = "day" /\ Requests("band") # {}
       /\ \A i \in Entries("req") : log[i][4] \in {"h404", "nodata"})
       => /\ result.status = "ok"
          /\ result.view.cached = FALSE
          /\ result.view.steps = 0
          /\ result.view.calories = 0
          /\ result.view.heart_rate = <<>>
          /\ result.view.sleep = EmptyDict

\* the remote service has answered 404 to the requests of a day request
C10_Witness ==
    /\ DayFetched
    /\ log[1] = <<"req", "band", result.date, "h404">>
    /\ \A i \in Entries("req") : log[i][4] = "h404"
    /\ result.view.cached = FALSE

\* ------------------------------------------------------------------------
\* C11
\* ------------------------------------------------------------------------
\* C11: a day request on a cache miss whose band_data request fails with an HTTP status
\* that is neither 2xx nor 404 returns an error, not a day summary.
C11_RemoteErrorIsReturned ==
    (result.op = "day" /\ Requests("band") # {}
       /\ \E i \in Requests("band") : log[i][4] \in {"h500", "h401"})
       => result.status = "error"

\* ------------------------------------------------------------------------
\* C12
\* ------------------------------------------------------------------------
\* the request of the day request that has just ended failed to persist what it fetched
PersistFailed(l) == l # <<>> /\ l[Len(l)][1] = "commit" /\ l[Len(l)][2] = "day" /\ l[Len(l)][4] = "fail"

\* C12: a day request whose caching block fails still answers, without error and with
\* cached = false, the values it fetched, and leaves the tables as they were.
C12_PersistFailureIsSwallowed ==
    [][ (ops' = ops + 1 /\ result'.op = "day" /\ PersistFailed(log'))
        => /\ result'.status = "ok"
           /\ result'.view.cached = FALSE
           /\ \E ans \in DayAnswers(MaxDeviations) :
                 LET got == GetDailySummary(result'.date, ans)
                 IN  /\ SubSeq(log', 1, Len(log') - 1) = got.reqs
                     /\ result'.view.steps = Get(got.summary.activity, "steps", 0)
                     /\ result'.view.calories = Get(got.summary.activity, "calories", 0)
                     /\ result'.view.heart_rate = got.summary.heart_rate
                     /\ result'.view.sleep = got.summary.sleep
           /\ UNCHANGED <<activity, hrs, stepsTab>> ]_vars

\* a day request has returned fetched steps although its commit failed, and no row was kept
C12_Witness ==
    /\ DayFetched /\ PersistFailed(log)
    /\ result.view.steps > 0 /\ result.view.cached = FALSE
    /\ Matching(activity, result.user, result.date) = {}

\* ------------------------------------------------------------------------
\* C13
\* ------------------------------------------------------------------------
\* a band_data answer whose summary blob is there and does not decode
Undecodable(band_data) ==
    /\ Truthy(band_data) /\ Has(band_data, "data") /\ Truthy(band_data.data)
    /\ Has(band_data.data[1], "summary")
    /\ ~band_data.data[1].summary.empty
    /\ ~band_data.data[1].summary.b64ok

\* C13: a day whose summary blob does not parse is unavailable as a whole: no activity row
\* is kept for it that has heart-rate values next to an empty activity.
C13_UndecodableDayIsNotPartial ==
    \A i \in 1..Len(activity) :
        Undecodable(activity[i].raw_data.band_data)
           => ~(Truthy(activity[i].raw_data.heart_rate) /\ ~Truthy(activity[i].raw_data.activity))

\* ------------------------------------------------------------------------
\* C14
\* ------------------------------------------------------------------------
SyncCounts == {"activity_synced", "steps_synced", "heart_rate_synced", "sleep_synced"}

\* C14: whatever the store holds and whatever fails, a sync request ends with the four
\* counts and reports no error to its caller.
C14_SyncEndsWithCounts ==
    result.op = "sync" => (SyncCounts \subseteq DOMAIN result /\ result.errors = <<>>)

\* ------------------------------------------------------------------------
\* C15
\* ------------------------------------------------------------------------
\* the refresh requests of a user that are between their credentials query and their commit
Refreshing(u) ==
    {r \in Slots : /\ inflight[r].kind = "refresh" /\ inflight[r].user = u
                   /\ inflight[r].pc \in {"exchange", "write"}}

\* C15: at most one token refresh of a user is in flight at any time.
C15_OneRefreshInFlight ==
    \A u \in Users : Cardinality(Refreshing(u)) <= 1

\* ------------------------------------------------------------------------
\* C16
\* ------------------------------------------------------------------------
\* the day requests for (u, d) that went to the remote service and have returned
FetchedDays(u, d) ==
    {r \in Slots : /\ inflight[r].kind = "day" /\ inflight[r].user = u /\ inflight[r].date = d
                   /\ inflight[r].pc = "done" /\ inflight[r].status = "ok"
                   /\ inflight[r].view.cached = FALSE}

\* C16: day requests for the same user and date that overlap leave at most one activity
\* row and at most one heart-rate session for that (user, date), and exactly one activity
\* row when nothing else failed.
C16_OverlappingDaysKeepOneRow ==
    \A u \in Users : \A d \in {TargetDate(q) : q \in ConcDates} :
        /\ Cardinality(Matching(activity, u, d)) <= 1
        /\ Cardinality(HrMatching(hrs, u, d)) <= 1
        /\ (Cardinality(FetchedDays(u, d)) >= 2 /\ dev = 0)
              => Cardinality(Matching(activity, u, d)) = 1

\* two day requests for the same user and date both missed the cache, fetched and returned
C16_Witness ==
    \E u \in Users : \E d \in {TargetDate(q) : q \in ConcDates} :
        /\ Cardinality(FetchedDays(u, d)) >= 2 /\ dev = 0
        /\ Cardinality(Matching(activity, u, d)) = 1
        /\ Cardinality(HrMatching(hrs, u, d)) = 1

\* ------------------------------------------------------------------------
\* C17
\* ------------------------------------------------------------------------
\* C17: every value either heart-rate decoder puts out lies in 0..239.
C17_DecodedValuesUpTo239 ==
    dec.encoding \in {"le16", "byte8"}
       => \A i \in 1..Len(dec.hr_values) : dec.hr_values[i] \in 0..239

\* ------------------------------------------------------------------------
\* C19
\* ------------------------------------------------------------------------
\* the 16-bit little-endian value of the k-th group of a blob
Group16(blob, k) == blob[2 * k - 1] + 256 * blob[2 * k]

\* C19: the 16-bit decoder puts out ceil(n/2) samples for n bytes: 0 for a group of 0xFFFF,
\* v // 10 for another group v > 300, v itself for v <= 300, and 0 for a dangling last byte.
C19_Paired16Mapping ==
    dec.encoding = "le16"
       => /\ 2 * Len(dec.hr_values) \in {Len(dec.blob), Len(dec.blob) + 1}
          /\ \A k \in 1..Len(dec.hr_values) :
                IF 2 * k > Len(dec.blob) THEN dec.hr_values[k] = 0
                ELSE LET v == Group16(dec.blob, k)
                     IN  /\ v = 65535 => dec.hr_values[k] = 0
                         /\ (v # 65535 /\ v > 300) => dec.hr_values[k] = v \div 10
                         /\ v <= 300 => dec.hr_values[k] = v

\* a blob of three bytes, a group above 300 and a dangling byte, has been decoded
C19_Witness ==
    /\ dec.encoding = "le16" /\ Len(dec.blob) = 3 /\ dec.blob[3] # 0
    /\ Group16(dec.blob, 1) > 300 /\ Group16(dec.blob, 1) # 65535
    /\ dec.hr_values = <<Group16(dec.blob, 1) \div 10, 0>>

C18_SleepHoursNotNegative ==
    \A i \in 1..Len(activity) :
        /\ activity[i].sleep_hours >= 0
        /\ activity[i].deep_sleep_hours >= 0
        /\ activity[i].light_sleep_hours >= 0
        /\ activity[i].rem_sleep_hours >= 0
        /\ activity[i].awake_hours >= 0

\* ------------------------------------------------------------------------
\* C21
\* ------------------------------------------------------------------------
\* C21: the sleep duration of a summary is ed - st when its slp group has both; otherwise
\* it is the first field of the group that is a positive number and is neither st nor ed;
\* and when there is no such field either, the summary has no duration (the day's view then
\* shows 0), not a negative one, and the call still returns.
C21_SleepDurationOfTheGroup ==
    (calc.fn = "get_daily_summary" /\ Has(calc.input, "slp"))
       => LET slp == calc.input.slp
              sleep == calc.output.sleep
              positive == {i \in 1..Len(slp) :
                              slp[i][2] > 0 /\ slp[i][1] # "st" /\ slp[i][1] # "ed"}
          IN  IF PHas(slp, "st") /\ PHas(slp, "ed")
              THEN /\ sleep.sleep_time_seconds = PGet(slp, "ed", 0) - PGet(slp, "st", 0)
                   /\ sleep.sleep_time_hours = <<sleep.sleep_time_seconds, 3600>>
              ELSE IF positive # {}
              THEN \E i \in positive :
                      /\ \A j \in positive : i <= j
                      /\ sleep.sleep_time_seconds = slp[i][2]
                      /\ sleep.sleep_time_hours = <<slp[i][2], 3600>>
              ELSE /\ ~Has(sleep, "sleep_time_seconds")
                   /\ ~Has(sleep, "sleep_time_hours")
                   /\ FetchedView(Today, calc.output).sleep_duration = 0

\* a group with st and without ed, whose duration was taken from the field after st
C21_Witness ==
    /\ calc.fn = "get_daily_summary" /\ Has(calc.input, "slp")
    /\ calc.input.slp = << <<"st", 1000>>, <<"tt", 6400>> >>
    /\ calc.output.sleep.sleep_time_seconds = 6400

\* ------------------------------------------------------------------------
\* C25
\* ------------------------------------------------------------------------
\* C25: whichever of the groups stp, slp, hrv, wkt, evt a summary has, it is decoded: a
\* group that is there is projected from its fields (steps = stp.ttl, calories = stp.cal,
\* hrv = hrv.avg, the workout and event lists as they are, the sleep stages from slp), and
\* a group that is not there gives an empty activity or sleep group, hrv 0, or an empty list.
C25_EveryGroupIsOptional ==
    calc.fn = "get_daily_summary"
       => LET d == calc.input
              out == calc.output
          IN  /\ Has(d, "stp") => (out.activity.steps = d.stp.ttl /\ out.activity.calories = d.stp.cal)
              /\ ~Has(d, "stp") => out.activity = EmptyDict
              /\ Has(d, "slp") =>
                    /\ Has(out.sleep, "deep_sleep_minutes") = PHas(d.slp, "dp")
                    /\ PHas(d.slp, "dp") => out.sleep.deep_sleep_minutes = PGet(d.slp, "dp", 0)
              /\ ~Has(d, "slp") => out.sleep = EmptyDict
              /\ out.hrv = IF Has(d, "hrv") THEN d.hrv.avg ELSE 0
              /\ out.workouts = IF Has(d, "wkt") THEN d.wkt ELSE <<>>
              /\ out.events = IF Has(d, "evt") THEN d.evt ELSE <<>>

\* the summary {"stp": {"ttl": 8342, "cal": 210}} has been decoded
C25_Witness ==
    /\ calc.fn = "get_daily_summary" /\ DOMAIN calc.input = {"stp"}
    /\ calc.output.activity.steps = 8342 /\ calc.output.activity.calories = 210
    /\ calc.output.sleep = EmptyDict /\ calc.output.hrv = 0

\* ------------------------------------------------------------------------
\* C22
\* ------------------------------------------------------------------------
\* C22: the statistics of a heart-rate series are taken over its non-zero samples only:
\* avg is their mean rounded down, min and max their smallest and largest, the valid count
\* is their number and the total count is the length of the series; a series that is empty
\* or has only zeros gives an empty result.
C22_StatisticsOverNonZeroSamples ==
    calc.fn = "_process_heart_rate_data"
       => LET series == calc.input
              stats == calc.output
              nonzero == {i \in 1..Len(series) : series[i] # 0}
              n == Cardinality(nonzero)
          IN  IF nonzero = {} THEN stats = EmptyDict
              ELSE /\ stats.avg_hr * n <= SumSeq(series)
                   /\ SumSeq(series) < (stats.avg_hr + 1) * n
                   /\ \E i \in nonzero : stats.min_hr = series[i]
                   /\ \A i \in nonzero : stats.min_hr <= series[i]
                   /\ \E i \in nonzero : stats.max_hr = series[i]
                   /\ \A i \in nonzero : series[i] <= stats.max_hr
                   /\ stats.valid_readings = n
                   /\ stats.total_readings = Len(series)

\* the statistics of a series with a zero between two samples
C22_Witness ==
    /\ calc.fn = "_process_heart_rate_data"
    /\ calc.input = <<239, 0, 30>>
    /\ calc.output.avg_hr = 134 /\ calc.output.min_hr = 30 /\ calc.output.max_hr = 239
    /\ calc.output.valid_readings = 2 /\ calc.output.total_readings = 3

\* ------------------------------------------------------------------------
\* C23
\* ------------------------------------------------------------------------
\* C23: every call of get_amazfit_token sends the registration-tokens request, once; it
\* sends the client-login request after it, and only when the first answer was a redirect
\* with an access code and without an error; otherwise the call fails with that one request
\* sent; and a call sends both requests whatever calls came before it.
C23_LoginFollowsTheAccessCode ==
    \A c \in 1..Len(login) :
        LET call == login[c]
            resp1 == call.answers[1]
            coded == /\ resp1.http = "ok" /\ resp1.redirect
                     /\ "access" \in resp1.params /\ "error" \notin resp1.params
        IN  /\ call.sent[1][2] = "tokens"
            /\ Cardinality({i \in 1..Len(call.sent) : call.sent[i][2] = "tokens"}) = 1
            /\ coded => (Len(call.sent) = 2 /\ call.sent[2][2] = "login")
            /\ ~coded => (Len(call.sent) = 1 /\ call.outcome = "raised")
            /\ call.outcome = "token" => Len(call.sent) = 2

\* two calls one after the other each sent both requests and got a token
C23_Witness ==
    /\ Len(login) = 2
    /\ login[1].outcome = "token" /\ Len(login[1].sent) = 2
    /\ login[2].outcome = "token" /\ Len(login[2].sent) = 2

\* ------------------------------------------------------------------------
\* C28
\* ------------------------------------------------------------------------
\* C28: whatever pages the remote answers with, pages with a cursor and no workouts
\* included, a call of get_workout_history comes to an end, and what it returns has at
\* most `limit` workouts.
C28_WorkoutHistoryTerminates ==
    /\ [](wk.pc = "returned" => Len(wk.returned) <= wk.limit)
    /\ (wk.pc = "loop") ~> (wk.pc \in {"returned", "raised"})

\* ------------------------------------------------------------------------
\* C26
\* ------------------------------------------------------------------------
\* C26: a day request served from the cache right after the day request that fetched and
\* stored that (user, date) answers with the heart-rate series, the steps and the calories
\* the fetching request answered with, also when the fetched series has only zeros.
C26_CacheHitEqualsTheMiss ==
    [][ (/\ DayFetched /\ ~PersistFailed(log)
         /\ ops' = ops + 1 /\ result'.op = "day" /\ result'.status = "ok"
         /\ result'.user = result.user /\ result'.date = result.date
         /\ result'.view.cached = TRUE)
        => /\ result'.view.heart_rate = result.view.heart_rate
           /\ result'.view.steps = result.view.steps
           /\ result'.view.calories = result.view.calories ]_vars

\* ------------------------------------------------------------------------
\* C27
\* ------------------------------------------------------------------------
\* the columns of an activity row that a fetch fills
FetchedColumns(row) ==
    <<row.steps, row.calories_burned, row.sleep_hours, row.deep_sleep_hours,
      row.light_sleep_hours, row.rem_sleep_hours, row.awake_hours, row.raw_data>>

\* C27: when the activity pass of a sync commits, every day of the pass whose fetch failed
\* and whose activity row held the values of an earlier successful fetch still has that
\* row with the same steps, calories, sleep hours and raw payload.
C27_SyncKeepsCachedDays ==
    [][ (pc = "activity" /\ pc' # "activity")
        => \A i \in PassDays("activity") :
              log[i][4] = "nofetch"
                 => \A r \in Matching(activity, sy.user, log[i][3]) :
                       (Truthy(activity[r].raw_data.band_data) /\ activity[r].steps > 0)
                          => \E q \in Matching(activity', sy.user, log[i][3]) :
                                FetchedColumns(activity'[q]) = FetchedColumns(activity[r]) ]_vars

\* ------------------------------------------------------------------------
\* C24
\* ------------------------------------------------------------------------
\* the credentials rows of a user
CredentialsOf(tab, u) == {i \in 1..Len(tab) : tab[i].user = u}

\* C24: whatever connect, refresh, sync, day and disconnect requests ran one after another,
\* a user has at most one credentials row; a row appears only in a connect request whose
\* token exchange succeeded and goes only in a disconnect request; and a connect or refresh
\* request whose token exchange failed leaves the credentials rows as they were.
C24_OneCredentialsRecordPerUser ==
    [][ \A u \in Users :
          /\ Cardinality(CredentialsOf(creds', u)) <= 1
          /\ (CredentialsOf(creds, u) = {} /\ CredentialsOf(creds', u) # {})
                => /\ result' = [op |-> "connect", user |-> u, status |-> "ok"]
                   /\ log' = << <<"req", "tokens", 0, "ok">>, <<"req", "login", 0, "ok">> >>
          /\ (CredentialsOf(creds, u) # {} /\ CredentialsOf(creds', u) = {})
                => result' = [op |-> "disconnect", user |-> u, status |-> "ok"]
          /\ (result'.op \in {"connect", "refresh"} /\ result'.status = "error")
                => creds' = creds ]_vars

\* a refresh whose token exchange failed has left the token a refresh before it had stored
C24_Witness ==
    /\ result.op = "refresh" /\ result.status = "error"
    /\ \E i \in Requests("tokens") \cup Requests("login") : log[i][4] # "ok"
    /\ Cardinality(CredentialsOf(creds, result.user)) = 1
    /\ creds[CredOf(creds, result.user)].app_token = TokenNames[1]

Manual(row) == Has(row.session_data, "note")

\* C30: no request changes or removes a heart-rate session the user logged by hand: the
\* heart-rate upsert of a sync or of a day request touches the device's session only.
C30_ManualSessionsAreKept ==
    [][ \A i \in 1..Len(hrs) :
          Manual(hrs[i]) => \E j \in 1..Len(hrs') : hrs'[j] = hrs[i] ]_vars

====
